---- MODULE Spec2Model ----
(***************************************************************************)
(* Model of AtomicStaticVec<T, N> (src/src/lib.rs): a fixed-capacity       *)
(* vector with a reservation counter (write_len), a published length (len) *)
(* and N slots of possibly uninitialised storage (data).                    *)
(*                                                                         *)
(* push(&self) can be called by several writers at once and is modelled as *)
(* one process per writer, one action per atomic step.  The methods that   *)
(* take &mut self (try_extend_from_slice, try_extend_from_iter, remove)    *)
(* need exclusive access, so each is one action that runs only while no    *)
(* push is in flight.                                                      *)
(*                                                                         *)
(* remove_with_locks (src/src/with_locks.rs) works on a MutexedStaticVec:  *)
(* a length behind one lock and elements that carry a key and an optional  *)
(* payload behind a lock of their own.  It is one task, one action per     *)
(* stretch of code between two lock acquisitions.                          *)
(***************************************************************************)
EXTENDS Integers, Sequences, FiniteSets

\* ---------------------------------------------------------------- bounds
Cap == 3            \* the const generic N of AtomicStaticVec<T, N>
NumWriters == 2     \* threads calling push concurrently
MaxVal == 2         \* element values are 1..MaxVal
MaxExt == 2         \* longest slice / iterator handed to an extend call
MaxKey == 2         \* element keys are 1..MaxKey

Writers == 1..NumWriters
Values == 1..MaxVal
Slots == 0..(Cap - 1)

RECURSIVE SeqsUpTo(_)
SeqsUpTo(n) ==
    IF n = 0 THEN {<<>>}
    ELSE LET shorter == SeqsUpTo(n - 1)
         IN  shorter \cup {Append(s, v) : s \in {t \in shorter : Len(t) = n - 1}, v \in Values}

Inputs == SeqsUpTo(MaxExt)

\* ----------------------------------------------------------------- state
VARIABLES
    write_len,    \* AtomicStaticVec.write_len : reservation counter
    len,          \* AtomicStaticVec.len       : published length
    data,         \* AtomicStaticVec.data      : Slots -> slot
    pc,           \* per writer: position inside push
    old_len,      \* per writer: push's local old_len
    item,         \* per writer: push's argument
    res,          \* per writer: result of the writer's last finished push
    ret,          \* result of the last &mut self call
    aborted,      \* a panic (assert!, slice bounds) ended the program
    ctor,         \* which constructor built the container, its length and argument
    granted,      \* history: reservations granted to push, in order
    ok_returned,  \* history: number of pushes that returned Ok
    m_len,        \* MutexedStaticVec.len  : the length behind the coarse lock
    m_len_lock,   \* MutexedStaticVec.len  : who holds the coarse lock
    m_data,       \* MutexedStaticVec.data : Slots -> element (key, payload)
    m_lock,       \* per element: who holds the element's payload lock
    rwl,          \* the task inside remove_with_locks: position and locals
    m_hist        \* history of the remove_with_locks call: state at entry,
                  \* payloads removed, value returned

cont == <<write_len, len, data>>
thr == <<pc, old_len, item, res>>
hist == <<ctor, granted, ok_returned>>
mvars == <<m_len, m_len_lock, m_data, m_lock, rwl, m_hist>>
vars == <<write_len, len, data, pc, old_len, item, res, ret, aborted, ctor, granted, ok_returned,
          m_len, m_len_lock, m_data, m_lock, rwl, m_hist>>

\* A slot is MaybeUninit<T>.  st is ownership bookkeeping the type system
\* does not keep: "uninit" never written, "partial" a write is under way,
\* "init" holds a value, "moved" holds the bits of a value that was moved out.
Uninit == [val |-> 0, st |-> "uninit"]
Partial(v) == [val |-> v, st |-> "partial"]
Holds(v) == [val |-> v, st |-> "init"]
MovedOut(s) == [val |-> s.val, st |-> "moved"]

\* Reading a slot as T: defined for a slot that holds (the bits of) a value,
\* any bit pattern otherwise.
ReadSlot(s) == IF s.st \in {"init", "moved"} THEN {s.val} ELSE Values

Container(w, l, d) == [write_len |-> w, len |-> l, data |-> d]
Self == Container(write_len, len, data)

\* ---------------------------------------------------------- constructors
\* AtomicStaticVec::new
new(l) ==
    IF l > Cap THEN [ok |-> FALSE, c |-> Container(0, 0, [i \in Slots |-> Uninit])]
    ELSE [ok |-> TRUE, c |-> Container(l, l, [i \in Slots |-> Uninit])]

\* Default::default
default == Container(0, 0, [i \in Slots |-> Uninit])

\* Variant of extend_array with a plausible slip: the last element of the
\* array is not copied.
extend_array_short(a) == [i \in Slots |-> IF i < Len(a) - 1 THEN Holds(a[i + 1]) ELSE Uninit]

\* extend_array
extend_array(a) == [i \in Slots |-> IF i < Len(a) THEN Holds(a[i + 1]) ELSE Uninit]

\* From<[UnsafeCell<MaybeUninit<T>>; N]>
from_cells(d) == Container(Cap, Cap, d)

\* AtomicStaticVec::resize_set
resize_set(c, new_len) == [c EXCEPT !.len = new_len]

\* AtomicStaticVec::from_array
from_array(a) == resize_set(from_cells(extend_array(a)), Len(a))

\* From<[T; N]> (and From<&[T; N]>, which clones the array first)
from(a) == Container(Cap, Cap, [i \in Slots |-> Holds(a[i + 1])])

\* ------------------------------------------------------- atomic helpers
\* Variants of resize_write_add with a plausible slip, used to show that the
\* properties below depend on it.
\* - the capacity test is missing
resize_write_add_unchecked(w, add_len) ==
    [ok |-> TRUE, old |-> w, new |-> w + add_len]

\* - the closure hands back the old value, so nothing is reserved
resize_write_add_no_store(w, add_len) ==
    IF w + add_len > Cap
    THEN [ok |-> FALSE, old |-> w, new |-> w]
    ELSE [ok |-> TRUE, old |-> w, new |-> w]

\* - fetch_add first, capacity test afterwards
resize_write_add_add_first(w, add_len) ==
    IF w + add_len > Cap
    THEN [ok |-> FALSE, old |-> w, new |-> w + add_len]
    ELSE [ok |-> TRUE, old |-> w, new |-> w + add_len]

\* AtomicStaticVec::resize_write_add: fetch_update on write_len.
\* old is the value fetch_update hands back, new the value stored.
resize_write_add(w, add_len) ==
    IF w + add_len > Cap
    THEN [ok |-> FALSE, old |-> w, new |-> w]
    ELSE [ok |-> TRUE, old |-> w, new |-> w + add_len]

\* Variants of resize_add_cond with a plausible slip.
\* - fetch_add instead of compare_exchange: no wait for earlier writers
resize_add_cond_fetch_add(cur, old, add_len) ==
    [ok |-> TRUE, new |-> cur + add_len]

\* - waits only until len has not passed old_len
resize_add_cond_at_most(cur, old, add_len) ==
    [ok |-> cur <= old, new |-> IF cur <= old THEN old + add_len ELSE cur]

\* AtomicStaticVec::resize_add_cond: one compare_exchange on len; the
\* caller spins until ok.
resize_add_cond(cur, old, add_len) ==
    [ok |-> cur = old, new |-> IF cur = old THEN old + add_len ELSE cur]

\* ------------------------------------------------------------- push
Quiescent == \A p \in Writers : pc[p] = "idle"

\* push: let old_len = self.resize_write_add(1)?;
push_reserve(p, it) ==
    /\ ~aborted
    /\ pc[p] = "idle"
    /\ LET r == resize_write_add(write_len, 1)
       IN  /\ write_len' = r.new
           /\ IF r.ok
              THEN /\ pc' = [pc EXCEPT ![p] = "write"]
                   /\ old_len' = [old_len EXCEPT ![p] = r.old]
                   /\ item' = [item EXCEPT ![p] = it]
                   /\ res' = [res EXCEPT ![p] = "none"]
                   /\ granted' = Append(granted, [idx |-> r.old, val |-> it])
              ELSE /\ res' = [res EXCEPT ![p] = "Err"]
                   /\ UNCHANGED <<pc, old_len, item, granted>>
    /\ UNCHANGED <<len, data, ret, aborted, ctor, ok_returned, mvars>>

\* push: el.write(item) starts on slot old_len
push_write(p) ==
    /\ ~aborted
    /\ pc[p] = "write"
    /\ data' = [data EXCEPT ![old_len[p]] = Partial(item[p])]
    /\ pc' = [pc EXCEPT ![p] = "writing"]
    /\ UNCHANGED <<write_len, len, old_len, item, res, ret, aborted, ctor, granted, ok_returned, mvars>>

\* push: el.write(item) completes
push_write_done(p) ==
    /\ ~aborted
    /\ pc[p] = "writing"
    /\ data' = [data EXCEPT ![old_len[p]] = Holds(item[p])]
    /\ pc' = [pc EXCEPT ![p] = "publish"]
    /\ UNCHANGED <<write_len, len, old_len, item, res, ret, aborted, ctor, granted, ok_returned, mvars>>

\* push: self.resize_add_cond(old_len, 1); Ok(ret)
push_publish(p) ==
    /\ ~aborted
    /\ pc[p] = "publish"
    /\ LET c == resize_add_cond(len, old_len[p], 1)
       IN  /\ c.ok
           /\ len' = c.new
    /\ pc' = [pc EXCEPT ![p] = "idle"]
    /\ res' = [res EXCEPT ![p] = "Ok"]
    /\ old_len' = [old_len EXCEPT ![p] = 0]
    /\ item' = [item EXCEPT ![p] = 0]
    /\ ok_returned' = ok_returned + 1
    /\ UNCHANGED <<write_len, data, ret, aborted, ctor, granted, mvars>>

\* ------------------------------------------------- &mut self methods
\* AtomicStaticVec::as_mut_slice: the view &mut data[..len]
as_mut_slice_len(c) == c.len

\* <[T]>::copy_from_slice into the view starting at slot start
copy_from_slice(d, start, other) ==
    [i \in Slots |-> IF i >= start /\ i < start + Len(other)
                     THEN Holds(other[i - start + 1]) ELSE d[i]]

\* AtomicStaticVec::try_extend_from_slice on container c.
\* Indexing [old_len..] panics when old_len is past the view, and
\* copy_from_slice panics when the two lengths differ.
extend_from_slice(c, other) ==
    LET r == resize_write_add(c.write_len, Len(other))
        reserved == [c EXCEPT !.write_len = r.new]
        view == as_mut_slice_len(reserved)
    IN  IF ~r.ok THEN [res |-> "Err", c |-> c]
        ELSE IF r.old > view THEN [res |-> "Panic", c |-> reserved]
        ELSE IF view - r.old # Len(other) THEN [res |-> "Panic", c |-> reserved]
        ELSE [res |-> "Ok",
              c |-> resize_set([reserved EXCEPT !.data = copy_from_slice(c.data, r.old, other)],
                               r.old + Len(other))]

\* AtomicStaticVec::try_extend_from_iter on container c: the for loop.
\* try_extend_from_iter_ref clones each element and calls it, so one
\* definition stands for both.
RECURSIVE extend_from_iter(_, _)
extend_from_iter(c, iter) ==
    IF iter = <<>> THEN [res |-> "Ok", c |-> c]
    ELSE LET r == resize_write_add(c.write_len, 1)
         IN  IF ~r.ok THEN [res |-> "Err", c |-> c]
             ELSE extend_from_iter(
                      resize_set([c EXCEPT !.write_len = r.new,
                                           !.data = [c.data EXCEPT ![r.old] = Holds(Head(iter))]],
                                 r.old + 1),
                      Tail(iter))

\* ptr::copy(src, dst, count) on the slot array (memmove semantics)
ptr_copy(d, src, dst, count) ==
    [i \in Slots |-> IF i >= dst /\ i < dst + count THEN d[src + (i - dst)] ELSE d[i]]

\* Variant of remove_shift with a plausible slip: the last element is moved
\* into the hole (swap_remove) instead of shifting the tail down.
remove_swap(c, index) ==
    LET swapped == ptr_copy(c.data, c.len - 1, index, IF index < c.len - 1 THEN 1 ELSE 0)
    IN  resize_set([c EXCEPT !.data = [swapped EXCEPT ![c.len - 1] = MovedOut(swapped[c.len - 1])]],
                   c.len - 1)

\* AtomicStaticVec::remove on container c, past the two assertions:
\* ptr::read(ptr); ptr::copy(ptr.add(1), ptr, len - index - 1); resize_set(len - 1).
\* The slot at len - 1 keeps the bits of a value that now lives elsewhere.
remove_shift(c, index) ==
    LET shifted == ptr_copy(c.data, index + 1, index, c.len - index - 1)
    IN  resize_set([c EXCEPT !.data = [shifted EXCEPT ![c.len - 1] = MovedOut(shifted[c.len - 1])]],
                   c.len - 1)

\* Variant of remove_asserts with a plausible slip: the index is tested
\* against the capacity instead of the length.
remove_asserts_capacity(c, index) == c.len > 0 /\ index < Cap

\* AtomicStaticVec::remove: assert!(len > 0); assert!(index < len);
remove_asserts(c, index) == c.len > 0 /\ index < c.len

Install(c) ==
    /\ write_len' = c.write_len
    /\ len' = c.len
    /\ data' = c.data

try_extend_from_slice(other) ==
    /\ ~aborted
    /\ Quiescent
    /\ LET r == extend_from_slice(Self, other)
       IN  /\ Install(r.c)
           /\ ret' = [op |-> "try_extend_from_slice", res |-> r.res, val |-> 0]
           /\ aborted' = (r.res = "Panic")
    /\ UNCHANGED <<thr, hist, mvars>>

try_extend_from_iter(iter) ==
    /\ ~aborted
    /\ Quiescent
    /\ LET r == extend_from_iter(Self, iter)
       IN  /\ Install(r.c)
           /\ ret' = [op |-> "try_extend_from_iter", res |-> r.res, val |-> 0]
    /\ UNCHANGED <<thr, hist, aborted, mvars>>

remove(index) ==
    /\ ~aborted
    /\ Quiescent
    /\ IF ~remove_asserts(Self, index)
       THEN /\ aborted' = TRUE
            /\ ret' = [op |-> "remove", res |-> "Panic", val |-> 0]
            /\ UNCHANGED cont
       ELSE /\ \E v \in ReadSlot(data[index]) :
                   ret' = [op |-> "remove", res |-> "Ok", val |-> v]
            /\ Install(remove_shift(Self, index))
            /\ UNCHANGED aborted
    /\ UNCHANGED <<thr, hist, mvars>>

\* --------------------------------- remove_with_locks (with_locks.rs)
\* An element T: KeyTrait + OptionMutexTrait is a key and an Option payload
\* behind the element's own lock.  None is the empty payload.
Keys == 1..MaxKey
None == 0
Element(k, v) == [key |-> k, item |-> v]
NoElement == Element(0, None)

\* KeyTrait::get_key / KeyTrait::set_key
get_key(e) == e.key
set_key(e, k) == [e EXCEPT !.key = k]

\* OptionMutexTrait::take_item: under the element's lock, Option::take
take_item(e) == [taken |-> e.item, e |-> [e EXCEPT !.item = None]]

RwlIdle == [pc |-> "idle", i |-> 0, len |-> 0, kp |-> {}, ip |-> {}]
NoCall == [pre_len |-> 0, pre_data |-> [i \in Slots |-> NoElement], removed |-> 0,
           ret |-> "none", kp |-> {}, ip |-> {}]

\* let mut len_locked = self.len.lock().await; let len = *len_locked;
\* assert!(len > 0);
rwl_call(kp, ip) ==
    /\ ~aborted
    /\ rwl.pc = "idle"
    /\ m_len_lock = "free"
    /\ m_hist' = [pre_len |-> m_len, pre_data |-> m_data, removed |-> 0,
                  ret |-> IF m_len > 0 THEN "none" ELSE "Panic", kp |-> kp, ip |-> ip]
    /\ IF m_len > 0
       THEN /\ m_len_lock' = "rwl"
            /\ rwl' = [pc |-> "scan", i |-> 0, len |-> m_len, kp |-> kp, ip |-> ip]
            /\ UNCHANGED aborted
       ELSE /\ aborted' = TRUE
            /\ UNCHANGED <<m_len_lock, rwl>>
    /\ UNCHANGED <<cont, thr, hist, ret, m_len, m_data, m_lock>>

\* for i in 0..len { ... if !key_pred(&item.get_key()) { continue; } ... }
\* and, past the loop, the return: false, which drops len_locked.
rwl_scan ==
    /\ ~aborted
    /\ rwl.pc = "scan"
    /\ IF rwl.i >= rwl.len
       THEN /\ rwl' = RwlIdle
            /\ m_len_lock' = "free"
            /\ m_hist' = [m_hist EXCEPT !.ret = "false"]
       ELSE /\ IF get_key(m_data[rwl.i]) \in rwl.kp
               THEN rwl' = [rwl EXCEPT !.pc = "lock_item"]
               ELSE rwl' = [rwl EXCEPT !.i = rwl.i + 1]
            /\ UNCHANGED <<m_len_lock, m_hist>>
    /\ UNCHANGED <<cont, thr, hist, ret, aborted, m_len, m_data, m_lock>>

\* lock_item().await on the slot i, then the test of the payload.  A payload
\* that is empty or fails item_pred drops the guard and continues.  When i is
\* last_index the payload is cleared, the guard dropped and
\* *len_locked = len - 1 stored; otherwise the guard stays held.
rwl_lock_item ==
    /\ ~aborted
    /\ rwl.pc = "lock_item"
    /\ m_lock[rwl.i] = "free"
    /\ LET i == rwl.i
           last_index == rwl.len - 1
           selected == m_data[i].item
       IN  IF selected = None \/ selected \notin rwl.ip
           THEN /\ rwl' = [rwl EXCEPT !.pc = "scan", !.i = i + 1]
                /\ UNCHANGED <<m_len, m_data, m_lock, m_hist>>
           ELSE IF i # last_index
           THEN /\ m_lock' = [m_lock EXCEPT ![i] = "rwl"]
                /\ rwl' = [rwl EXCEPT !.pc = "take_last"]
                /\ UNCHANGED <<m_len, m_data, m_hist>>
           ELSE /\ m_data' = [m_data EXCEPT ![i].item = None]
                /\ m_len' = rwl.len - 1
                /\ m_hist' = [m_hist EXCEPT !.removed = m_hist.removed + 1]
                /\ rwl' = [rwl EXCEPT !.pc = "scan", !.i = i + 1]
                /\ UNCHANGED m_lock
    /\ UNCHANGED <<cont, thr, hist, ret, aborted, m_len_lock>>

\* take_item().await and get_key() on the slot last_index, *selected = last,
\* the guard of slot i dropped, set_key(last_key), *len_locked = len - 1.
rwl_take_last ==
    /\ ~aborted
    /\ rwl.pc = "take_last"
    /\ LET i == rwl.i
           last_index == rwl.len - 1
           t == take_item(m_data[last_index])
           last_key == get_key(t.e)
       IN  /\ m_lock[last_index] = "free"
           /\ m_data' = [m_data EXCEPT ![last_index] = t.e,
                                       ![i] = set_key([m_data[i] EXCEPT !.item = t.taken], last_key)]
           /\ m_lock' = [m_lock EXCEPT ![i] = "free"]
           /\ m_len' = rwl.len - 1
           /\ m_hist' = [m_hist EXCEPT !.removed = m_hist.removed + 1]
           /\ rwl' = [rwl EXCEPT !.pc = "scan", !.i = i + 1]
    /\ UNCHANGED <<cont, thr, hist, ret, aborted, m_len_lock>>

\* Another task takes the payload lock of an element (lock_item) ...
env_lock(i) ==
    /\ ~aborted
    /\ m_data[i] # NoElement
    /\ m_lock[i] = "free"
    /\ \A j \in Slots : m_lock[j] # "env"
    /\ m_lock' = [m_lock EXCEPT ![i] = "env"]
    /\ UNCHANGED <<cont, thr, hist, ret, aborted, m_len, m_len_lock, m_data, rwl, m_hist>>

\* ... and drops the guard.
env_unlock(i) ==
    /\ ~aborted
    /\ m_lock[i] = "env"
    /\ m_lock' = [m_lock EXCEPT ![i] = "free"]
    /\ UNCHANGED <<cont, thr, hist, ret, aborted, m_len, m_len_lock, m_data, rwl, m_hist>>

\* ------------------------------------------------------------- Init
NoRet == [op |-> "none", res |-> "none", val |-> 0]

ThreadsInit ==
    /\ pc = [p \in Writers |-> "idle"]
    /\ old_len = [p \in Writers |-> 0]
    /\ item = [p \in Writers |-> 0]
    /\ res = [p \in Writers |-> "none"]
    /\ ret = NoRet
    /\ aborted = FALSE
    /\ granted = <<>>
    /\ ok_returned = 0

Built(c, name, arr) ==
    /\ write_len = c.write_len
    /\ len = c.len
    /\ data = c.data
    /\ ctor = [op |-> name, len |-> c.len, arr |-> arr]

\* No MutexedStaticVec is in use.
MutexedIdle ==
    /\ m_len = 0
    /\ m_len_lock = "free"
    /\ m_data = [i \in Slots |-> NoElement]
    /\ m_lock = [i \in Slots |-> "free"]
    /\ rwl = RwlIdle
    /\ m_hist = NoCall

\* A MutexedStaticVec whose first l slots hold elements; a payload may be
\* empty.
MutexedBuilt ==
    /\ \E l \in 0..Cap :
           /\ m_len = l
           /\ m_data \in [Slots -> [key : Keys, item : Values \cup {None}] \cup {NoElement}]
           /\ \A i \in Slots : (m_data[i] = NoElement) <=> (i >= l)
    /\ m_len_lock = "free"
    /\ m_lock = [i \in Slots |-> "free"]
    /\ rwl = RwlIdle
    /\ m_hist = NoCall

InitEmpty ==
    /\ MutexedIdle
    /\ ThreadsInit
    /\ \/ Built(new(0).c, "new", <<>>)
       \/ Built(default, "default", <<>>)

Init ==
    /\ MutexedIdle
    /\ ThreadsInit
    /\ \/ \E l \in 0..(Cap + 1) : new(l).ok /\ Built(new(l).c, "new", <<>>)
       \/ Built(default, "default", <<>>)
       \/ \E a \in SeqsUpTo(Cap) : Built(from_array(a), "from_array", a)
       \/ \E a \in {s \in SeqsUpTo(Cap) : Len(s) = Cap} : Built(from(a), "from", a)

NextPush ==
    \/ \E p \in Writers, it \in Values : push_reserve(p, it)
    \/ \E p \in Writers : push_write(p)
    \/ \E p \in Writers : push_write_done(p)
    \/ \E p \in Writers : push_publish(p)

SpecPush == InitEmpty /\ [][NextPush]_vars

Next ==
    \/ \E p \in Writers, it \in Values : push_reserve(p, it)
    \/ \E p \in Writers : push_write(p)
    \/ \E p \in Writers : push_write_done(p)
    \/ \E p \in Writers : push_publish(p)
    \/ \E other \in Inputs : try_extend_from_slice(other)
    \/ \E iter \in Inputs : try_extend_from_iter(iter)
    \/ \E index \in 0..Cap : remove(index)

Spec == Init /\ [][Next]_vars

InitLocks ==
    /\ ThreadsInit
    /\ Built(default, "default", <<>>)
    /\ MutexedBuilt

NextLocks ==
    \/ \E kp \in SUBSET Keys, ip \in SUBSET Values : rwl_call(kp, ip)
    \/ rwl_scan
    \/ rwl_lock_item
    \/ rwl_take_last
    \/ \E i \in Slots : env_lock(i)
    \/ \E i \in Slots : env_unlock(i)

SpecLocks == InitLocks /\ [][NextLocks]_vars

\* push runs on its caller's thread; a thread inside push keeps running.
PushFairness ==
    \A p \in Writers :
        /\ WF_vars(push_write(p))
        /\ WF_vars(push_write_done(p))
        /\ WF_vars(push_publish(p))

FairSpec == Spec /\ PushFairness

\* ================================================================ claims
InFlight(p) == pc[p] # "idle"
AllHold(l, d) == \A i \in Slots : i < l => d[i].st = "init"
\* new(l) with l > 0 leaves it to the caller to fill the first l slots; the
\* claims about results are stated for containers that were not built so.
Populated == ctor.op = "new" => ctor.len = 0

\* C1 (SpecPush): prefix validity under concurrent push.  In every reachable
\* state every slot below len holds a value whose write has finished; no
\* slot below len is unwritten or still being written.
C1_PrefixValidity ==
    \A i \in Slots : i < len => data[i].st = "init"

\* A prefix is published while another writer is in the middle of its write.
C1_Witness ==
    /\ len >= 1
    /\ \E p \in Writers : pc[p] = "writing"

\* C2 (SpecPush): reservation-order publish.  len changes only in the publish
\* step of a writer whose reserved index old_len equals the current len, to
\* old_len + 1, and never past the reserved index of a writer still in flight.
C2_ReservationOrderPublish ==
    [][len' # len =>
        \E p \in Writers :
            /\ pc[p] = "publish"
            /\ pc'[p] = "idle"
            /\ len = old_len[p]
            /\ len' = old_len[p] + 1
            /\ len' > len
            /\ \A q \in Writers \ {p} : InFlight(q) => len' <= old_len[q]]_vars

\* The writer of the later slot has finished writing and waits to publish,
\* while the writer of the earlier slot has not finished its write.
C2_Witness ==
    \E p, q \in Writers :
        /\ pc[p] = "publish"
        /\ pc[q] \in {"write", "writing"}
        /\ old_len[q] < old_len[p]
        /\ len = old_len[q]

\* C3 (Spec): capacity conservation.  In every state reachable through the
\* constructors, push, try_extend_from_slice, try_extend_from_iter and
\* remove, write_len <= N and len <= write_len (so len <= N).
C3_CapacityConservation ==
    /\ write_len <= Cap
    /\ len <= write_len
    /\ len <= Cap

\* An append was refused on a container whose reservation counter is at N
\* while the published length is below it.
C3_Witness ==
    /\ write_len = Cap
    /\ len < write_len
    /\ ret.res = "Err"
    /\ \E p \in Writers : res[p] = "Err"

\* C4 (SpecPush): exclusive slot claims and no lost appends.  Writers in
\* flight hold pairwise different slot indices, no index is granted twice,
\* and once every push has returned len is the initial length plus the
\* number of pushes that returned Ok and every granted value sits in its own
\* slot below len.
C4_ExclusiveClaimsNoLostAppends ==
    /\ \A p, q \in Writers :
           (p # q /\ InFlight(p) /\ InFlight(q)) => old_len[p] # old_len[q]
    /\ \A j, k \in 1..Len(granted) : j # k => granted[j].idx # granted[k].idx
    /\ Quiescent =>
           /\ len = ctor.len + ok_returned
           /\ ok_returned = Len(granted)
           /\ \A k \in 1..Len(granted) :
                  /\ granted[k].idx < len
                  /\ data[granted[k].idx] = Holds(granted[k].val)

\* Every push has returned and the container was filled by them.
C4_Witness ==
    /\ Quiescent
    /\ ok_returned = Cap
    /\ len = Cap

\* C5 (FairSpec): publish liveness.  A push whose reservation succeeded
\* eventually publishes and returns, while pushes in flight keep running.
C5_PublishLiveness ==
    \A p \in Writers : (Populated /\ InFlight(p)) ~> ~InFlight(p)

\* C6 (Spec): push fails only when full.  A push issued while no other push
\* is in flight returns CapacityExceeded if and only if len = N.
C6_PushFailsOnlyWhenFull ==
    [][\A p \in Writers, it \in Values :
           (Populated /\ Quiescent /\ push_reserve(p, it))
               => (res'[p] = "Err" <=> len = Cap)]_vars

\* C7 (SpecPush): a failed reservation is side-effect-free, also while other
\* pushes run; a push issued while none is in flight is granted index len
\* unless len = N, when it fails; and once all pushes have returned the
\* slots 0..len-1 hold the pushed values in the order they were granted.
C7_FailedPushStep ==
    \A p \in Writers, it \in Values :
        push_reserve(p, it) =>
            /\ res'[p] = "Err" => UNCHANGED <<write_len, len, data>>
            /\ Quiescent =>
                   IF len = Cap
                   THEN res'[p] = "Err" /\ len' = Cap
                   ELSE res'[p] # "Err" /\ old_len'[p] = len /\ item'[p] = it

C7_SequentialOrder ==
    Quiescent =>
        /\ len = Len(granted)
        /\ \A k \in 1..Len(granted) :
               /\ granted[k].idx = k - 1
               /\ data[k - 1] = Holds(granted[k].val)

C7_FailedReservationNoEffect ==
    [][C7_FailedPushStep]_vars /\ []C7_SequentialOrder

\* A push was refused while another writer still holds the last slot.
C7_Witness ==
    \E p, q \in Writers :
        /\ res[p] = "Err"
        /\ InFlight(q)
        /\ len = Cap - 1
        /\ write_len = Cap

\* C8 (Spec): bulk extend is all-or-nothing.  An extend call given more
\* values than the capacity left returns CapacityExceeded and leaves
\* write_len, len and the slots as they were.
C8_ExtendAllOrNothing ==
    [][\A vs \in Inputs :
           (/\ Populated
            /\ try_extend_from_iter(vs) \/ try_extend_from_slice(vs)
            /\ Len(vs) > Cap - write_len)
               => (ret'.res = "Err" /\ UNCHANGED <<write_len, len, data>>)]_vars

\* C9 (Spec): try_extend_from_slice succeeds when there is room.  With
\* len = write_len = L and a slice of k >= 1 values, L + k <= N, the call
\* returns Ok, len becomes L + k, slots below L are unchanged and slots
\* L..L+k-1 hold the slice in order.
C9_ExtendFromSliceSucceeds ==
    [][\A vs \in Inputs :
           (/\ Populated
            /\ try_extend_from_slice(vs)
            /\ len = write_len /\ Len(vs) >= 1 /\ len + Len(vs) <= Cap)
               => /\ ret'.res = "Ok"
                  /\ ~aborted'
                  /\ len' = len + Len(vs)
                  /\ \A i \in Slots : i < len => data'[i] = data[i]
                  /\ \A k \in 1..Len(vs) : data'[len + k - 1] = Holds(vs[k])]_vars

\* C10 (Spec): remove(index) is an order-preserving shift.  On contents s of
\* length L > 0 and index < L it returns s[index], the length becomes L - 1,
\* the slots before index are unchanged and each later one moves down by one.
C10_RemoveShifts ==
    [][\A index \in 0..Cap :
           (remove(index) /\ index < len /\ AllHold(len, data))
               => /\ ret'.res = "Ok"
                  /\ ret'.val = data[index].val
                  /\ len' = len - 1
                  /\ \A j \in Slots : j < index => data'[j] = data[j]
                  /\ \A j \in Slots : (index <= j /\ j < len - 1) => data'[j] = data[j + 1]
                  /\ AllHold(len', data')]_vars

\* remove returned an element that was not the last one of a full container:
\* the vacated last slot holds the bits of a different value.
C10_Witness ==
    /\ ret.op = "remove"
    /\ ret.res = "Ok"
    /\ len = Cap - 1
    /\ AllHold(len, data)
    /\ data[Cap - 1].st = "moved"
    /\ data[Cap - 1].val # ret.val

\* C11 (Spec): remove rejects misuse by aborting before any change.  Called
\* on an empty container or with index >= len it fails an assertion; len,
\* write_len and the slots are unchanged and no value is returned.
C11_RemoveRejectsMisuse ==
    [][\A index \in 0..Cap :
           (remove(index) /\ (len = 0 \/ index >= len))
               => /\ aborted'
                  /\ ret' = [op |-> "remove", res |-> "Panic", val |-> 0]
                  /\ UNCHANGED <<write_len, len, data>>]_vars

\* remove was refused on a container that is not empty.
C11_Witness ==
    /\ aborted
    /\ ret.op = "remove"
    /\ ret.res = "Panic"
    /\ len > 0
    /\ AllHold(len, data)

\* The state right after construction: no call has been made yet.
Fresh ==
    /\ ret = NoRet
    /\ granted = <<>>
    /\ \A p \in Writers : pc[p] = "idle" /\ res[p] = "none"

\* C16 (Spec): round trip from a literal array.  A container built from an
\* array of A <= N values (from with A = N, from_array with A <= N) has
\* len = A and holds the array's values in order.
C16_RoundTrip ==
    (Fresh /\ ctor.op \in {"from", "from_array"}) =>
        /\ len = Len(ctor.arr)
        /\ \A k \in 1..Len(ctor.arr) : data[k - 1] = Holds(ctor.arr[k])

\* A container built by from_array from a shorter array with two different
\* values.
C16_Witness ==
    /\ Fresh
    /\ ctor.op = "from_array"
    /\ Len(ctor.arr) = Cap - 1
    /\ len = Cap - 1
    /\ ctor.arr[1] # ctor.arr[Cap - 1]

\* C17 (Spec): quiescent counter agreement.  Whenever no append is between
\* its reserve step and its publish step, write_len = len.
C17_QuiescentCounterAgreement ==
    (Populated /\ Quiescent /\ ~aborted) => write_len = len

\* C18 (Spec): try_extend_from_iter publishes only what it wrote.  On a
\* container whose slots below len hold values, the call leaves those slots
\* alone, writes its values from index len on, one per unit of len, and
\* afterwards every slot below len holds a value.
C18_ExtendFromIterPublishesWhatItWrote ==
    [][\A vs \in Inputs :
           (Populated /\ AllHold(len, data) /\ try_extend_from_iter(vs))
               => /\ len' >= len
                  /\ len' <= len + Len(vs)
                  /\ \A i \in Slots : i < len => data'[i] = data[i]
                  /\ \A i \in Slots : (len <= i /\ i < len') => data'[i] = Holds(vs[i - len + 1])
                  /\ AllHold(len', data')]_vars

\* ------------------------------------------ claims on remove_with_locks
\* The call has returned a value.
Returned == rwl.pc = "idle" /\ m_hist.ret \in {"true", "false"}
\* Element e satisfies both predicates of the call.
Matches(e) == e.key \in m_hist.kp /\ e.item # None /\ e.item \in m_hist.ip
MatchesAtEntry == {i \in Slots : i < m_hist.pre_len /\ Matches(m_hist.pre_data[i])}
PayloadsAtEntry == \A i \in Slots : i < m_hist.pre_len => m_hist.pre_data[i].item # None

\* C12 (SpecLocks): remove_with_locks reports its outcome.  It returns true
\* if it removed an element that satisfies key_pred and item_pred, and false
\* if no element matched.
C12_ReportsOutcome ==
    Returned => (m_hist.ret = IF m_hist.removed > 0 THEN "true" ELSE "false")

\* C13 (SpecLocks): swap-remove density.  Starting from active slots that all
\* hold a payload, after a call that removed something every slot below the
\* new length holds a payload; when one element was removed and it was not
\* the last active one, the former last element (payload and key) sits at
\* the vacated index, and all other active slots are untouched.
C13_SwapRemoveDensity ==
    (Returned /\ PayloadsAtEntry /\ m_hist.removed > 0) =>
        /\ \A i \in Slots : i < m_len => m_data[i].item # None
        /\ m_hist.removed = 1 =>
               \E j \in MatchesAtEntry :
                   /\ m_len = m_hist.pre_len - 1
                   /\ j < m_len => m_data[j] = m_hist.pre_data[m_hist.pre_len - 1]
                   /\ \A i \in Slots : (i < m_len /\ i # j) => m_data[i] = m_hist.pre_data[i]

\* C14 (SpecLocks): remove_with_locks has no precondition and no failure
\* mode.  Called on a container of any length, 0 included, it does not abort.
C14_NoPrecondition ==
    [][\A kp \in SUBSET Keys, ip \in SUBSET Values : rwl_call(kp, ip) => ~aborted']_vars

\* C15 (SpecLocks): lock discipline.  The length lock is held from the start
\* of the scan to the return, and the call holds no slot's payload lock at
\* the time it goes to acquire a slot's payload lock.
C15_LockDiscipline ==
    /\ rwl.pc # "idle" => m_len_lock = "rwl"
    /\ rwl.pc \in {"lock_item", "take_last"} => \A i \in Slots : m_lock[i] # "rwl"

\* C19 (SpecLocks): length accounting.  For one call the length decreases by
\* the number of payloads the call removed, every payload that did not match
\* at entry is still in the container, and the length is unchanged when
\* nothing matched.
C19_LengthAccounting ==
    Returned =>
        /\ m_hist.pre_len - m_len = m_hist.removed
        /\ MatchesAtEntry = {} => (m_len = m_hist.pre_len /\ m_data = m_hist.pre_data)
        /\ \A i \in Slots :
               (i < m_hist.pre_len /\ m_hist.pre_data[i].item # None /\ ~Matches(m_hist.pre_data[i]))
                   => \E j \in Slots : m_data[j].item = m_hist.pre_data[i].item

TypeOK ==
    /\ write_len \in 0..Cap
    /\ len \in 0..Cap
====
